---- MODULE Spec2Model ----
(***************************************************************************)
(* State-machine model of the dispatch engine of src/index.js (class       *)
(* ProxyServer): the slug registry `clients`, the pending table            *)
(* `pendingRequests`, the deadline timers, the statistics counters and     *)
(* the WebSocket sessions, with one action per event handler.  Node runs   *)
(* every handler to completion, so each handler (with the microtasks it    *)
(* leaves behind) is one atomic action.  The model has no clock: a         *)
(* deadline armed with setTimeout may elapse at any later moment, and a    *)
(* record can only be older than the stale cutoff when no shorter deadline *)
(* is armed for it any more.                                               *)
(*                                                                         *)
(* In front of the engine stands the admission gate of the createServer    *)
(* callback (rate limit, path routing, slug validation, whitelist) and the *)
(* frame dispatch of handleWebSocketMessage.  They are pure decisions over *)
(* the request or frame, the configuration and the rate-limit tracker, and *)
(* are exercised by GateSpec and RouteSpec with the engine at rest; a      *)
(* request that reaches the registry lookup continues as HttpRequest.      *)
(* SanitizeSpec applies the header sanitiser of collectRequestData to      *)
(* header mappings, MaintenanceSpec runs the gate together with the        *)
(* periodic performMemoryCleanup, and LogSpec runs addLog on the in-memory *)
(* log with its real capacity.                                             *)
(***************************************************************************)
EXTENDS Integers, Sequences, FiniteSets, TLC

\* ------------------------------------------------------------------ bounds
MaxWs == 2
MaxHttp == 2

\* securityConfig.maxRequestsPerMinute and maxConnectionsPerIP (100 and 10 in
\* the source), scaled down; MaxOpens caps the control-channel opens of one address.
MaxRequestsPerMinute == 2
MaxConnectionsPerIP == 1
MaxOpens == 2

WS == 1..MaxWs
HTTP == 1..MaxHttp
Slugs == {"svc-a", "svc-b"}

\* ------------------------------------------------------- program constants
QueueTimeoutMs == 30000
ForwardTimeoutMs == 150000
StaleMs == 300000
DefaultStatus == 200
WindowMs == 60000
MaxSlugLen == 50
MaxRequestSize == 10485760

\* HTTP requests are sent to one slug; sessions register either slug, so the
\* slug with traffic can be the first or the second binding of a session.
HttpSlugs == {"svc-a"}

\* clients.get(slug) of an unbound slug (undefined).
NoClient == 0

\* A request id that is not in the pending table: one that uuidv4() never
\* returned, or the id of a record that is gone.
BogusId == <<0, 0>>

\* A response.body that is a JSON value other than a string (an object, an
\* array, a number, true).
NonText == "{object}"

\* The response objects a handler frame carries: statusCode 0 and body ""
\* stand for an omitted (falsy) field, headers {} for an omitted mapping.
StructuredResponses ==
  { [statusCode |-> 0, headers |-> {}, body |-> ""],
    [statusCode |-> 201, headers |-> {<<"Content-Type", "text/plain">>}, body |-> "ok"] }

\* JSON.parse accepts any value in the fields of response.
Responses ==
  StructuredResponses \cup
  { [statusCode |-> 99, headers |-> {<<"X-Handler", "h1">>}, body |-> ""],
    [statusCode |-> 0, headers |-> {}, body |-> NonText] }

VARIABLES
  readyState,      \* session -> "NONE" | "OPEN" | "CLOSING" | "CLOSED"
  closeReason,     \* session -> reason of the close() the server has requested
                   \*   on a socket that is still closing, or "none"
  clients,         \* Map slug -> session, as its entries in insertion order
  statusClients,   \* Set of dashboard sessions
  pendingRequests, \* Map requestId -> record, as its entries in insertion order;
                   \*   req: the record holds the request (it is queued),
                   \*   sentTo: the session the forwarded frame was written to,
                   \*   exposed: the id has left the process
  timers,          \* armed setTimeout handles: [id, kind, ms]
  inflight,        \* handleRequestWithClient calls suspended in collectRequestData;
                   \*   logged: "Handling request <id>" reached a dashboard
  gen,             \* HTTP request -> number of request ids allocated for it
  reply,           \* HTTP request -> the replies begun on its res (writeHead),
                   \*   ended: res.end() has completed
  stats,           \* totalRequests, successfulResponses, failedResponses
  shuttingDown,    \* shutdown() has run
  now,             \* Date.now()
  securityConfig,  \* enableRateLimit, slugWhitelist (read from the environment)
  rateLimitTracker,\* Map ip -> {requests, connections}
  audit,           \* ip -> the times at which its HTTP requests passed the gate
                   \*   and at which its control-channel opens were accepted
  last             \* the HTTP request, upgrade or frame handled last, with the
                   \*   reply or the handler the code chose for it

\* The dispatch engine and the admission gate in front of it.
engine == <<readyState, closeReason, clients, statusClients, pendingRequests,
            timers, inflight, gen, reply, stats, shuttingDown>>
admission == <<now, securityConfig, rateLimitTracker, audit, last>>

vars == <<readyState, closeReason, clients, statusClients, pendingRequests,
          timers, inflight, gen, reply, stats, shuttingDown,
          now, securityConfig, rateLimitTracker, audit, last>>

\* ----------------------------------------------------------------- helpers
RECURSIVE Filter(_, _)
Filter(s, keep) ==
  IF s = <<>> THEN <<>>
  ELSE (IF Head(s) \in keep THEN <<Head(s)>> ELSE <<>>) \o Filter(Tail(s), keep)

Range(s) == {s[i] : i \in 1..Len(s)}

\* Variant: the lookup returns the first session of the registry, whatever
\* slug it holds.
ClientsGetAnySlug(cl, slug) == IF cl = <<>> THEN NoClient ELSE cl[1].ws

\* clients.get(slug)
ClientsGet(cl, slug) ==
  LET I == {i \in 1..Len(cl) : cl[i].slug = slug}
  IN IF I = {} THEN NoClient ELSE cl[CHOOSE i \in I : \A j \in I : i <= j].ws

\* Variant: registering a bound slug adds an entry and keeps the old one.
ClientsSetKeepsOld(cl, slug, ws) == Append(cl, [slug |-> slug, ws |-> ws])

\* clients.set(slug, ws): an existing key keeps its place in the order.
ClientsSet(cl, slug, ws) ==
  IF \E i \in 1..Len(cl) : cl[i].slug = slug
  THEN [i \in 1..Len(cl) |->
          IF cl[i].slug = slug THEN [slug |-> slug, ws |-> ws] ELSE cl[i]]
  ELSE Append(cl, [slug |-> slug, ws |-> ws])

\* clients.delete(slug)
ClientsDelete(cl, slug) == Filter(cl, {e \in Range(cl) : e.slug # slug})

\* pendingRequests.get(requestId)
PendingHas(id) == \E r \in Range(pendingRequests) : r.id = id
PendingGet(id) == CHOOSE r \in Range(pendingRequests) : r.id = id

\* Variant: pendingRequests.delete removes nothing.
PendingDeleteKeepsAll(pr, ids) == pr

\* pendingRequests.delete for a set of ids
PendingDelete(pr, ids) == Filter(pr, {r \in Range(pr) : r.id \notin ids})

\* Variant: clearTimeout does nothing.
ClearTimeoutsKeepsAll(ts, ids) == ts

\* clearTimeout for a set of ids
ClearTimeouts(ts, ids) == {t \in ts : t.id \notin ids}

\* Variant: the headersSent guard never holds a write back.
HeadersSentNever(rp, h) == FALSE

\* res.headersSent
HeadersSent(rp, h) == rp[h] # <<>>

ErrorReply(status, msg) ==
  [status |-> status, headers |-> {<<"Content-Type", "application/json">>},
   body |-> msg, ended |-> TRUE]

\* Variant: the error reply is not written.
WriteErrorNothing(rp, hs, status, msg) == rp

\* if (!res.headersSent) { res.writeHead(status, ...); res.end(JSON error) }
WriteError(rp, hs, status, msg) ==
  [h \in HTTP |->
     IF h \in hs /\ ~HeadersSent(rp, h) THEN Append(rp[h], ErrorReply(status, msg))
     ELSE rp[h]]

\* uuidv4(): a fresh id for HTTP request h
NewId(h) == <<h, gen[h] + 1>>

\* broadcastToStatusClients: sessions that are not OPEN are dropped from the set
Broadcast(rs, sc) == {w \in sc : rs[w] = "OPEN"}


\* Variant: the close() call is missing.
CloseSocketNoop(rs, ws) == rs

\* ws.close(code, reason): only an OPEN socket starts closing
CloseSocket(rs, ws) == [w \in WS |-> IF w \in ws /\ rs[w] = "OPEN" THEN "CLOSING" ELSE rs[w]]
CloseWhy(cr, ws, why) == [w \in WS |-> IF w \in ws /\ readyState[w] = "OPEN" THEN why ELSE cr[w]]

\* --------------------------------------------------------- admission gate
\* The addresses getClientIP can return.
IPs == {"10.0.0.1", "10.0.0.2"}

\* A header that the request does not carry.
NoHeader == ""

\* Date.now() at the moments that matter for a 60 s window that starts at 0.
Instants == {0, 1, WindowMs}

Lower == {"a", "b", "c", "d", "e", "f", "g", "h", "i", "j", "k", "l", "m",
          "n", "o", "p", "q", "r", "s", "t", "u", "v", "w", "x", "y", "z"}
Upper == {"A", "B", "C", "D", "E", "F", "G", "H", "I", "J", "K", "L", "M",
          "N", "O", "P", "Q", "R", "S", "T", "U", "V", "W", "X", "Y", "Z"}
Digits == {"0", "1", "2", "3", "4", "5", "6", "7", "8", "9"}

\* The character class of /^[a-zA-Z0-9_-]+$/
SlugChars == Lower \cup Upper \cup Digits \cup {"_", "-"}

\* Strings are sequences of characters.
RECURSIVE Rep(_, _)
Rep(c, n) == IF n = 0 THEN <<>> ELSE <<c>> \o Rep(c, n - 1)

StartsWith(str, prefix) ==
  Len(str) >= Len(prefix) /\ SubSeq(str, 1, Len(prefix)) = prefix

StatusSlug == <<"s", "t", "a", "t", "u", "s">>
LongestSlug == Rep("a", MaxSlugLen)

AuthLoginPath == <<"/", "a", "u", "t", "h", "/", "l", "o", "g", "i", "n">>
StatusPath == <<"/">> \o StatusSlug
ApiPrefix == <<"/", "a", "p", "i", "/">>

\* What follows the leading slash in the pathnames of the requests.
PathTails ==
  { <<>>, <<"a">>, <<"A", "_", "9", "-">>, LongestSlug, Rep("a", MaxSlugLen + 1),
    <<"a", "/">>, <<"a", "%", "2", "0">>, StatusSlug, StatusSlug \o <<"/", "x">>,
    <<"a", "u", "t", "h", "/", "l", "o", "g", "i", "n">>,
    <<"a", "p", "i", "/", "s", "t", "a", "t", "u", "s">> }

\* An HTTP request as the gate sees it: the X-Forwarded-For header, the
\* address of the socket, whether headers.upgrade is 'websocket', the path.
\* The requests that exercise the rate limit differ in address and header,
\* those that exercise the routing differ in path.
GateRequests ==
  [xff : {NoHeader}, remote : {"10.0.0.1"}, upgrade : BOOLEAN,
   pathname : {<<"/", "a">>}]
  \cup [xff : {"10.0.0.2"}, remote : {"10.0.0.1"}, upgrade : {FALSE},
        pathname : {<<"/", "a">>}]
RouteRequests ==
  [xff : {NoHeader}, remote : {"10.0.0.1"}, upgrade : {FALSE},
   pathname : {<<"/">> \o t : t \in PathTails}]
Requests == GateRequests \cup RouteRequests

\* The values of ENABLE_RATE_LIMIT and SLUG_WHITELIST.
Configs ==
  [enableRateLimit : BOOLEAN, slugWhitelist : {<<>>, <<LongestSlug>>}]

\* securityConfig when the environment sets neither.
DefaultConfig == [enableRateLimit |-> TRUE, slugWhitelist |-> <<>>]

\* A requestId that is present in the frame and falsy (0, false, null, '').
FalsyId == "(falsy)"

\* The frames of a session that parse to an object: "" and <<>> are fields
\* that are absent (for slug and response: or falsy).
Messages ==
  [type : {"", "status-client"},
   slug : {<<>>, <<"a">>, <<"a", "/">>, StatusSlug},
   requestId : {"", FalsyId, "id-1"},
   response : {"", "{}"}]

\* Data of a frame that JSON.parse rejects, and the data 'null', which
\* parses to a value without properties.
InvalidJson == "{\"slug\":"
JsonNull == "null"

\* The truth value of message.requestId
Truthy(requestId) == requestId \notin {"", FalsyId}

\* getClientIP(req)
GetClientIP(req) == IF req.xff # NoHeader THEN req.xff ELSE req.remote

\* Variant: the length of a slug is not limited.
ValidateSlugAnyLength(slug) ==
  Len(slug) >= 1 /\ \A i \in 1..Len(slug) : slug[i] \in SlugChars

\* validateSlug(slug)
ValidateSlug(slug) ==
  /\ Len(slug) \in 1..MaxSlugLen
  /\ \A i \in 1..Len(slug) : slug[i] \in SlugChars

\* What the code does with a request or a frame: an error reply (or, on the
\* control channel, an error hint), or the handler it calls next.
Rejected(status, error) == [status |-> status, error |-> error, next |-> "none"]
Hint(error) == [status |-> 0, error |-> error, next |-> "none"]
Routed(handler) == [status |-> 0, error |-> "", next |-> handler]

\* tracker.requests / tracker.connections .filter(timestamp => timestamp > minuteAgo)
CleanOld(stamps, minuteAgo) == SelectSeq(stamps, LAMBDA ts : ts > minuteAgo)

\* rateLimitTracker.get(clientIP), created empty when missing
TrackerOf(tr, ip) ==
  IF ip \in DOMAIN tr THEN tr[ip] ELSE [requests |-> <<>>, connections |-> <<>>]

\* checkRateLimit(clientIP, req): its result and the bucket it leaves
CheckRateLimit(tr, t, ip, req) ==
  LET minuteAgo == t - WindowMs
      tracker == TrackerOf(tr, ip)
      requests == CleanOld(tracker.requests, minuteAgo)
      connections == CleanOld(tracker.connections, minuteAgo)
  IN IF Len(requests) >= MaxRequestsPerMinute
     THEN [ok |-> FALSE, tracker |-> [tracker EXCEPT !.requests = requests]]
     ELSE IF ~req.upgrade
     THEN [ok |-> TRUE, tracker |-> [tracker EXCEPT !.requests = Append(requests, t)]]
     ELSE IF Len(connections) >= MaxConnectionsPerIP
     THEN [ok |-> FALSE,
           tracker |-> [requests |-> Append(requests, t), connections |-> connections]]
     ELSE [ok |-> TRUE,
           tracker |-> [requests |-> Append(requests, t),
                        connections |-> Append(connections, t)]]

\* The createServer callback after the rate limit: path routing, slug
\* validation, reserved slug, whitelist; "lookup" is this.clients.get(slug)
\* with handleRequestWithClient or handleRequestWithoutClient.
RoutePath(pathname, slugWhitelist) ==
  IF pathname = AuthLoginPath THEN Routed("handleLogin")
  ELSE IF pathname = StatusPath THEN Routed("handleStatusPage")
  ELSE IF StartsWith(pathname, ApiPrefix) THEN Routed("handleApiRequest")
  ELSE LET slug == Tail(pathname)
       IN IF slug = <<>> THEN Rejected(400, "Slug required")
          ELSE IF ~ValidateSlug(slug) THEN Rejected(400, "Invalid slug format")
          ELSE IF slug = StatusSlug
          THEN Rejected(400, "The slug \"status\" is reserved for the server status page")
          ELSE IF Len(slugWhitelist) > 0 /\ slug \notin Range(slugWhitelist)
          THEN Rejected(403, "Slug not authorized")
          ELSE Routed("lookup")

\* Variant: a registration of the reserved slug is not refused.
HandleWebSocketMessageNoReserved(message) ==
  IF message.type = "status-client" THEN Routed("statusClients.add")
  ELSE IF message.slug # <<>> /\ ~Truthy(message.requestId) THEN Routed("registerClient")
  ELSE IF message.slug # <<>> /\ Truthy(message.requestId) /\ message.response # ""
  THEN Routed("handleClientResponse")
  ELSE Hint("Invalid message format")

\* handleWebSocketMessage(ws, message): the branch it takes
HandleWebSocketMessage(message) ==
  IF message.type = "status-client" THEN Routed("statusClients.add")
  ELSE IF message.slug # <<>> /\ ~Truthy(message.requestId)
  THEN IF message.slug = StatusSlug
       THEN Hint("The slug \"status\" is reserved for the server status page")
       ELSE Routed("registerClient")
  ELSE IF message.slug # <<>> /\ Truthy(message.requestId) /\ message.response # ""
  THEN Routed("handleClientResponse")
  ELSE Hint("Invalid message format")

\* ws.on('message') for data that does not parse to an object: JSON.parse
\* throws, or handleWebSocketMessage throws reading message.slug of null.
OnMessageData(data) ==
  IF data = JsonNull THEN Hint("Message processing failed") ELSE Hint("Invalid JSON")

\* ------------------------------------------------------- header sanitiser
Alphabet == <<"a", "b", "c", "d", "e", "f", "g", "h", "i", "j", "k", "l", "m",
              "n", "o", "p", "q", "r", "s", "t", "u", "v", "w", "x", "y", "z">>
Capitals == <<"A", "B", "C", "D", "E", "F", "G", "H", "I", "J", "K", "L", "M",
              "N", "O", "P", "Q", "R", "S", "T", "U", "V", "W", "X", "Y", "Z">>

\* String.prototype.toLowerCase, on the characters of the model
ToLowerCase(str) ==
  [i \in 1..Len(str) |->
     IF \E k \in 1..26 : Capitals[k] = str[i]
     THEN Alphabet[CHOOSE k \in 1..26 : Capitals[k] = str[i]]
     ELSE str[i]]

\* The list dangerousHeaders of sanitizeHeaders.
DangerousHeaders ==
  { <<"h", "o", "s", "t">>,
    <<"c", "o", "n", "t", "e", "n", "t", "-", "l", "e", "n", "g", "t", "h">>,
    <<"t", "r", "a", "n", "s", "f", "e", "r", "-", "e", "n", "c", "o", "d", "i", "n", "g">>,
    <<"c", "o", "n", "n", "e", "c", "t", "i", "o", "n">>,
    <<"u", "p", "g", "r", "a", "d", "e">>,
    <<"p", "r", "o", "x", "y", "-", "c", "o", "n", "n", "e", "c", "t", "i", "o", "n">>,
    <<"p", "r", "o", "x", "y", "-", "a", "u", "t", "h", "e", "n", "t", "i", "c", "a", "t", "e">>,
    <<"p", "r", "o", "x", "y", "-", "a", "u", "t", "h", "o", "r", "i", "z", "a", "t", "i", "o", "n">>,
    <<"t", "e">>,
    <<"t", "r", "a", "i", "l", "e", "r", "s">> }

\* The classes \s and \w of the patterns of validateInput.
Whitespace == {" ", "\t", "\n", "\r"}
WordChars == Lower \cup Upper \cup Digits \cup {"_"}

\* A pattern that is a literal, as /<script/i
Contains(str, word) ==
  \E i \in 1..(Len(str) - Len(word) + 1) : SubSeq(str, i, i + Len(word) - 1) = word

\* /word\s*\(/i
ContainsCall(str, word) ==
  \E i \in 1..(Len(str) - Len(word) + 1) :
    /\ SubSeq(str, i, i + Len(word) - 1) = word
    /\ \E j \in (i + Len(word))..Len(str) :
         /\ str[j] = "("
         /\ \A k \in (i + Len(word))..(j - 1) : str[k] \in Whitespace

\* /on\w+\s*=/i
ContainsHandler(str) ==
  \E i \in 1..(Len(str) - 1) :
    /\ SubSeq(str, i, i + 1) = <<"o", "n">>
    /\ \E m \in (i + 2)..Len(str), j \in (i + 3)..Len(str) :
         /\ m < j
         /\ \A k \in (i + 2)..m : str[k] \in WordChars
         /\ \A k \in (m + 1)..(j - 1) : str[k] \in Whitespace
         /\ str[j] = "="

\* A header value: a string, or a value that is not one (an array of strings).
Text(str) == [type |-> "string", text |-> str]
NotText == [type |-> "object", text |-> <<>>]

\* validateInput(input)
ValidateInput(input) ==
  /\ input.type = "string"
  /\ LET str == ToLowerCase(input.text)
     IN ~ \/ Contains(str, <<"<", "s", "c", "r", "i", "p", "t">>)
          \/ Contains(str, <<"j", "a", "v", "a", "s", "c", "r", "i", "p", "t", ":">>)
          \/ ContainsHandler(str)
          \/ ContainsCall(str, <<"e", "v", "a", "l">>)
          \/ ContainsCall(str, <<"e", "x", "p", "r", "e", "s", "s", "i", "o", "n">>)
          \/ Contains(str, <<"v", "b", "s", "c", "r", "i", "p", "t", ":">>)
          \/ Contains(str, <<"d", "a", "t", "a", ":", "t", "e", "x", "t", "/", "h", "t", "m", "l">>)

\* Variant: the header name is compared as it is written.
SanitizeHeadersCaseSensitive(headers) ==
  LET kept == {key \in DOMAIN headers :
                 key \notin DangerousHeaders /\ ValidateInput(headers[key])}
  IN [key \in kept |-> headers[key]]

\* sanitizeHeaders(headers): a mapping from header names to values
SanitizeHeaders(headers) ==
  LET kept == {key \in DOMAIN headers :
                 ToLowerCase(key) \notin DangerousHeaders /\ ValidateInput(headers[key])}
  IN [key \in kept |-> headers[key]]

\* The header names and values of the requests.
HeaderNames ==
  { <<"h", "o", "s", "t">>, <<"H", "o", "s", "t">>, <<"T", "E">>,
    <<"x", "-", "i", "d">>, <<"C", "o", "o", "k", "i", "e">> }
HeaderValues ==
  { Text(<<"o", "k">>), Text(<<"<", "S", "c", "R", "i", "p", "t", ">">>),
    Text(<<"O", "n", "l", "o", "a", "d", " ", "=", "x">>), NotText }
HeaderMaps == UNION {[names -> HeaderValues] : names \in SUBSET HeaderNames}

\* ------------------------------------------------------------------- Init
EngineInit ==
  /\ readyState = [w \in WS |-> "NONE"]
  /\ closeReason = [w \in WS |-> "none"]
  /\ clients = <<>>
  /\ statusClients = {}
  /\ pendingRequests = <<>>
  /\ timers = {}
  /\ inflight = {}
  /\ gen = [h \in HTTP |-> 0]
  /\ reply = [h \in HTTP |-> <<>>]
  /\ stats = [totalRequests |-> 0, successfulResponses |-> 0, failedResponses |-> 0]
  /\ shuttingDown = FALSE

\* The gate before any request: an empty tracker.
GateInit ==
  /\ now = 0
  /\ rateLimitTracker = [ip \in {} |-> 0]
  /\ audit = [ip \in IPs |-> [http |-> <<>>, ws |-> <<>>]]
  /\ last = [kind |-> "none", input |-> [data |-> ""], verdict |-> Routed("none")]

Init ==
  /\ EngineInit
  /\ GateInit
  /\ securityConfig = DefaultConfig

\* ---------------------------------------------------------------- sessions
\* wsServer.on('connection'): a new session, OPEN from the start.
Connect(w) ==
  /\ ~shuttingDown
  /\ readyState[w] = "NONE"
  /\ \A v \in 1..(w - 1) : readyState[v] # "NONE"
  /\ readyState' = [readyState EXCEPT ![w] = "OPEN"]
  /\ UNCHANGED <<closeReason, clients, statusClients, pendingRequests, timers,
                 inflight, gen, reply, stats, shuttingDown>>
  /\ UNCHANGED admission

\* A session sends its status-client and registration frames while its
\* socket is OPEN.  A response can still be in flight when the server asks
\* the socket to close: its 'message' event arrives on the CLOSING socket;
\* none arrives once the peer's close frame or a socket error was seen.
CanReceive(w) ==
  \/ readyState[w] = "OPEN"
  \/ readyState[w] = "CLOSING" /\ closeReason[w] # "none"

\* The requestId values a response frame can carry: an id that is not in the
\* pending table, or the id of a record that has left the process, in the
\* forwarded-request frame or in a log line fanned out to a dashboard (the id
\* of a queued request is only written to the console).
FrameIds == {r.id : r \in {q \in Range(pendingRequests) : q.exposed}} \cup {BogusId}

\* The response frames sessions send: any response for an id of the table;
\* one frame for an id that is not in it, whose response is never read.
ResponseFrames ==
  {f \in FrameIds \X Responses :
     f[1] = BogusId => f[2] = [statusCode |-> 0, headers |-> {}, body |-> ""]}

\* handleWebSocketMessage, message.type === 'status-client'
StatusClientMsg(w) ==
  /\ readyState[w] = "OPEN"
  /\ statusClients' = statusClients \cup {w}
  /\ UNCHANGED <<readyState, closeReason, clients, pendingRequests, timers,
                 inflight, gen, reply, stats, shuttingDown>>
  /\ UNCHANGED admission

\* Variant: the drain forwards every record of the slug, also those that
\* were forwarded before.
WithRequestAll(D) == D

\* The drained records that carry the req of a queued request: the others,
\* stored by handleRequestWithClient, have none and collectRequestData
\* rejects for them.
WithRequest(D) == {r \in D : r.req}

\* handleWebSocketMessage -> registerClient(ws, slug), with the drain of
\* processPendingRequestsForSlug and the handleRequestWithClient calls it
\* starts (those without a req reject in collectRequestData at once).
RegisterMsg(w, slug) ==
  /\ readyState[w] = "OPEN"
  /\ LET old == ClientsGet(clients, slug)
         replacing == old # NoClient /\ readyState[old] = "OPEN"
         rs == IF replacing THEN CloseSocket(readyState, {old}) ELSE readyState
         D == {r \in Range(pendingRequests) : r.slug = slug}
         Q == WithRequest(D)
         F == D \ Q
     IN /\ readyState' = rs
        /\ closeReason' = IF replacing THEN CloseWhy(closeReason, {old}, "replaced")
                          ELSE closeReason
        /\ clients' = ClientsSet(clients, slug, w)
        /\ timers' = ClearTimeouts(timers, {r.id : r \in D})
        /\ pendingRequests' = PendingDelete(pendingRequests, {r.id : r \in D})
        /\ gen' = [h \in HTTP |-> IF \E r \in D : r.res = h THEN gen[h] + 1 ELSE gen[h]]
        /\ inflight' = inflight \cup
             {[res |-> r.res, id |-> NewId(r.res), slug |-> slug, client |-> w,
               logged |-> Broadcast(rs, statusClients) # {}] : r \in Q}
        /\ stats' = [stats EXCEPT !.totalRequests = @ + Cardinality(D),
                                  !.failedResponses = @ + Cardinality(F)]
        /\ reply' = WriteError(reply, {r.res : r \in F}, 500, "Internal server error")
        /\ statusClients' = IF D = {} THEN statusClients ELSE Broadcast(rs, statusClients)
  /\ UNCHANGED shuttingDown
  /\ UNCHANGED admission

\* response.statusCode || 200
StatusOf(r) == IF r.statusCode = 0 THEN DefaultStatus ELSE r.statusCode

\* res.writeHead throws ERR_HTTP_INVALID_STATUS_CODE outside 100..999
ValidStatus(c) == c \in 100..999

\* res.end throws ERR_INVALID_ARG_TYPE for a chunk that is not a string
IsText(b) == b # NonText

\* Variant: an omitted statusCode is not defaulted.
DeliveredReplyNoDefault(r) ==
  [status |-> r.statusCode, headers |-> r.headers, body |-> r.body,
   ended |-> IsText(r.body)]

\* What handleClientResponse puts on res for a response with a valid status:
\* setHeader for each header, writeHead(statusCode || 200), end(body || '').
\* When end throws, the head is set and nothing was sent.
DeliveredReply(r) ==
  [status |-> StatusOf(r),
   headers |-> r.headers,
   body |-> IF IsText(r.body) THEN r.body ELSE "",
   ended |-> IsText(r.body)]

\* The fallback of handleClientResponse when writeHead threw: the headers set
\* with setHeader stay on res, writeHead(500, {...}) overrides Content-Type.
FailedReply(r) ==
  [status |-> 500,
   headers |-> {p \in r.headers : p[1] # "Content-Type"}
                 \cup {<<"Content-Type", "application/json">>},
   body |-> "Failed to send response",
   ended |-> TRUE]

\* Variant: a response for an id that is not in the table counts as failed.
ResponseMsgCountsUnknown(w, id, r) ==
  /\ CanReceive(w)
  /\ statusClients' = Broadcast(readyState, statusClients)
  /\ IF ~PendingHas(id)
     THEN /\ stats' = [stats EXCEPT !.failedResponses = @ + 1]
          /\ UNCHANGED <<pendingRequests, timers, reply>>
     ELSE LET rec == PendingGet(id)
          IN /\ timers' = ClearTimeouts(timers, {id})
             /\ pendingRequests' = PendingDelete(pendingRequests, {id})
             /\ IF HeadersSent(reply, rec.res)
                THEN /\ stats' = [stats EXCEPT !.failedResponses = @ + 1]
                     /\ reply' = reply
                ELSE IF ~ValidStatus(StatusOf(r))
                THEN /\ stats' = [stats EXCEPT !.failedResponses = @ + 1]
                     /\ reply' = [reply EXCEPT ![rec.res] = Append(@, FailedReply(r))]
                ELSE IF ~IsText(r.body)
                THEN /\ stats' = [stats EXCEPT !.failedResponses = @ + 1]
                     /\ reply' = [reply EXCEPT ![rec.res] = Append(@, DeliveredReply(r))]
                ELSE /\ stats' = [stats EXCEPT !.successfulResponses = @ + 1]
                     /\ reply' = [reply EXCEPT ![rec.res] = Append(@, DeliveredReply(r))]
  /\ UNCHANGED <<readyState, closeReason, clients, inflight, gen, shuttingDown>>
  /\ UNCHANGED admission

\* handleWebSocketMessage -> handleClientResponse(message)
ResponseMsg(w, id, r) ==
  /\ CanReceive(w)
  /\ statusClients' = Broadcast(readyState, statusClients)
  /\ IF ~PendingHas(id)
     THEN UNCHANGED <<pendingRequests, timers, reply, stats>>
     ELSE LET rec == PendingGet(id)
          IN /\ timers' = ClearTimeouts(timers, {id})
             /\ pendingRequests' = PendingDelete(pendingRequests, {id})
             /\ IF HeadersSent(reply, rec.res)
                THEN \* setHeader / writeHead throw ERR_HTTP_HEADERS_SENT
                     /\ stats' = [stats EXCEPT !.failedResponses = @ + 1]
                     /\ reply' = reply
                ELSE IF ~ValidStatus(StatusOf(r))
                THEN /\ stats' = [stats EXCEPT !.failedResponses = @ + 1]
                     /\ reply' = [reply EXCEPT ![rec.res] = Append(@, FailedReply(r))]
                ELSE IF ~IsText(r.body)
                THEN /\ stats' = [stats EXCEPT !.failedResponses = @ + 1]
                     /\ reply' = [reply EXCEPT ![rec.res] = Append(@, DeliveredReply(r))]
                ELSE /\ stats' = [stats EXCEPT !.successfulResponses = @ + 1]
                     /\ reply' = [reply EXCEPT ![rec.res] = Append(@, DeliveredReply(r))]
  /\ UNCHANGED <<readyState, closeReason, clients, inflight, gen, shuttingDown>>
  /\ UNCHANGED admission

\* rejectPendingRequestsForSlug(slug)
RejectPendingRequestsForSlug(slug) ==
  LET D == {r \in Range(pendingRequests) : r.slug = slug}
  IN /\ reply' = WriteError(reply, {r.res : r \in D}, 503,
                            "No active WebSocket client for this slug")
     /\ timers' = ClearTimeouts(timers, {r.id : r \in D})
     /\ pendingRequests' = PendingDelete(pendingRequests, {r.id : r \in D})

\* removeClient(ws)
RemoveClient(w) ==
  IF w \in statusClients
  THEN /\ statusClients' = statusClients \ {w}
       /\ UNCHANGED <<clients, pendingRequests, timers, reply>>
  ELSE LET I == {i \in 1..Len(clients) : clients[i].ws = w}
       IN /\ UNCHANGED statusClients
          /\ IF I = {}
             THEN UNCHANGED <<clients, pendingRequests, timers, reply>>
             ELSE LET slug == clients[CHOOSE i \in I : \A j \in I : i <= j].slug
                  IN /\ clients' = ClientsDelete(clients, slug)
                     /\ RejectPendingRequestsForSlug(slug)

\* The peer's close frame arrives: the socket is CLOSING until 'close' fires.
BeginClose(w) ==
  /\ readyState[w] = "OPEN"
  /\ readyState' = [readyState EXCEPT ![w] = "CLOSING"]
  /\ UNCHANGED <<closeReason, clients, statusClients, pendingRequests, timers,
                 inflight, gen, reply, stats, shuttingDown>>
  /\ UNCHANGED admission

\* ws.on('error'): the socket is CLOSING when the handler runs
ErrorEvent(w) ==
  /\ readyState[w] = "OPEN"
  /\ readyState' = [readyState EXCEPT ![w] = "CLOSING"]
  /\ RemoveClient(w)
  /\ UNCHANGED <<closeReason, inflight, gen, stats, shuttingDown>>
  /\ UNCHANGED admission

\* ws.on('close'): the socket is CLOSED when the handler runs
CloseEvent(w) ==
  /\ readyState[w] \in {"OPEN", "CLOSING"}
  /\ readyState' = [readyState EXCEPT ![w] = "CLOSED"]
  /\ closeReason' = [closeReason EXCEPT ![w] = "none"]
  /\ RemoveClient(w)
  /\ UNCHANGED <<inflight, gen, stats, shuttingDown>>
  /\ UNCHANGED admission

\* -------------------------------------------------------------------- HTTP
\* createServer callback for a brokered path, from the registry lookup on:
\* handleRequestWithClient up to its await, or handleRequestWithoutClient.
HttpRequest(h, slug) ==
  /\ ~shuttingDown
  /\ gen[h] = 0
  /\ \A g \in 1..(h - 1) : gen[g] > 0
  /\ gen' = [gen EXCEPT ![h] = @ + 1]
  /\ LET client == ClientsGet(clients, slug)
     IN IF client # NoClient /\ readyState[client] = "OPEN"
        THEN /\ stats' = [stats EXCEPT !.totalRequests = @ + 1]
             /\ inflight' = inflight \cup
                  {[res |-> h, id |-> NewId(h), slug |-> slug, client |-> client,
                    logged |-> Broadcast(readyState, statusClients) # {}]}
             /\ statusClients' = Broadcast(readyState, statusClients)
             /\ UNCHANGED <<pendingRequests, timers>>
        ELSE /\ timers' = timers \cup {[id |-> NewId(h), kind |-> "queue", ms |-> QueueTimeoutMs]}
             /\ pendingRequests' = Append(pendingRequests,
                  [id |-> NewId(h), res |-> h, slug |-> slug, req |-> TRUE,
                   sentTo |-> NoClient, exposed |-> FALSE])
             /\ UNCHANGED <<stats, inflight, statusClients>>
  /\ UNCHANGED <<readyState, closeReason, clients, reply, shuttingDown>>
  /\ UNCHANGED admission

\* The bodies of the requests, as the lengths of the chunks of their 'data'
\* events.
Bodies ==
  { <<>>, <<1>>, <<MaxRequestSize>>, <<MaxRequestSize + 1>>,
    <<MaxRequestSize, 1>>, <<1, MaxRequestSize>> }

\* body.length after the first k chunks
RECURSIVE BodyLength(_, _)
BodyLength(chunks, k) == IF k = 0 THEN 0 ELSE BodyLength(chunks, k - 1) + chunks[k]

\* collectRequestData(req) for a request with a valid method and url whose
\* stream does not fail: TRUE when the promise resolves at 'end', FALSE when
\* a 'data' handler rejected it with 'Request body too large'.
CollectRequestData(chunks) ==
  \A k \in 1..Len(chunks) : ~(BodyLength(chunks, k) > MaxRequestSize)

\* Variant: a failure of client.send is not caught: the record is stored and
\* its timer armed as after a send that succeeded.
CollectDoneIgnoresSendError(e, collected, sendThrows) ==
  /\ e \in inflight
  /\ sendThrows => collected /\ readyState[e.client] # "OPEN"
  /\ inflight' = inflight \ {e}
  /\ statusClients' = Broadcast(readyState, statusClients)
  /\ IF ~collected
     THEN /\ stats' = [stats EXCEPT !.failedResponses = @ + 1]
          /\ reply' = WriteError(reply, {e.res}, 500, "Internal server error")
          /\ UNCHANGED <<pendingRequests, timers>>
     ELSE /\ timers' = timers \cup {[id |-> e.id, kind |-> "forward", ms |-> ForwardTimeoutMs]}
          /\ pendingRequests' = Append(pendingRequests,
               [id |-> e.id, res |-> e.res, slug |-> e.slug, req |-> FALSE,
                sentTo |-> IF readyState[e.client] = "OPEN" THEN e.client ELSE NoClient,
                exposed |-> \/ e.logged
                            \/ readyState[e.client] = "OPEN"
                            \/ Broadcast(readyState, statusClients) # {}])
          /\ UNCHANGED <<stats, reply>>
  /\ UNCHANGED <<readyState, closeReason, clients, gen, shuttingDown>>
  /\ UNCHANGED admission

\* handleRequestWithClient after its await: collectRequestData settles
\* (collected = FALSE: it rejects), then client.send, then the record is
\* stored.  send on a socket that is not OPEN throws or drops the frame,
\* depending on the ws version.
CollectDone(e, collected, sendThrows) ==
  /\ e \in inflight
  /\ sendThrows => collected /\ readyState[e.client] # "OPEN"
  /\ inflight' = inflight \ {e}
  /\ statusClients' = Broadcast(readyState, statusClients)
  /\ IF ~collected
     THEN /\ stats' = [stats EXCEPT !.failedResponses = @ + 1]
          /\ reply' = WriteError(reply, {e.res}, 500, "Internal server error")
          /\ UNCHANGED <<pendingRequests, timers>>
     ELSE IF sendThrows
     THEN /\ stats' = [stats EXCEPT !.failedResponses = @ + 1]
          /\ reply' = WriteError(reply, {e.res}, 500,
                                 "Failed to send request to WebSocket client")
          /\ UNCHANGED <<pendingRequests, timers>>
     ELSE /\ timers' = timers \cup {[id |-> e.id, kind |-> "forward", ms |-> ForwardTimeoutMs]}
          /\ pendingRequests' = Append(pendingRequests,
               [id |-> e.id, res |-> e.res, slug |-> e.slug, req |-> FALSE,
                sentTo |-> IF readyState[e.client] = "OPEN" THEN e.client ELSE NoClient,
                exposed |-> \/ e.logged
                            \/ readyState[e.client] = "OPEN"
                            \/ Broadcast(readyState, statusClients) # {}])
          /\ UNCHANGED <<stats, reply>>
  /\ UNCHANGED <<readyState, closeReason, clients, gen, shuttingDown>>
  /\ UNCHANGED admission

\* ------------------------------------------------------------------ timers
\* The setTimeout callbacks of handleRequestWithoutClient (30 s) and
\* handleRequestWithClient (150 s).  The process exits within 10 s of
\* shutdown(), before any deadline armed later can elapse.
TimerFire(t) ==
  /\ ~shuttingDown
  /\ t \in timers
  /\ timers' = timers \ {t}
  /\ pendingRequests' = PendingDelete(pendingRequests, {t.id})
  /\ IF t.kind = "queue"
     THEN /\ reply' = WriteError(reply, {t.id[1]}, 504,
                                 "No WebSocket client connected within timeout")
          /\ UNCHANGED <<stats, statusClients>>
     ELSE /\ reply' = WriteError(reply, {t.id[1]}, 504, "Request timeout")
          /\ stats' = [stats EXCEPT !.failedResponses = @ + 1]
          /\ statusClients' = Broadcast(readyState, statusClients)
  /\ UNCHANGED <<readyState, closeReason, clients, inflight, gen, shuttingDown>>
  /\ UNCHANGED admission

\* Variant: the cleanup takes every record for stale, whatever its age.
StaleAlways(r) == TRUE

\* requestData.timestamp < Date.now() - 300000 can only be true of a record
\* for which no deadline shorter than the cutoff is armed any more.
Stale(r) == ~\E t \in timers : t.id = r.id /\ t.ms < StaleMs

\* performMemoryCleanup (setInterval): dead dashboards and stale records
PerformMemoryCleanup ==
  /\ ~shuttingDown
  /\ LET stale == {r \in Range(pendingRequests) : Stale(r)}
     IN /\ timers' = ClearTimeouts(timers, {r.id : r \in stale})
        /\ pendingRequests' = PendingDelete(pendingRequests, {r.id : r \in stale})
  /\ statusClients' = Broadcast(readyState, statusClients)
  /\ UNCHANGED <<readyState, closeReason, clients, inflight, gen, reply, stats,
                 shuttingDown>>
  /\ UNCHANGED admission

\* Variant: shutdown() answers the pending requests and leaves their timers armed.
ShutdownKeepsTimers ==
  /\ ~shuttingDown
  /\ shuttingDown' = TRUE
  /\ LET closing == {e.ws : e \in Range(clients)} \cup statusClients
     IN /\ readyState' = CloseSocket(readyState, closing)
        /\ closeReason' = CloseWhy(closeReason, closing, "shutdown")
  /\ reply' = WriteError(reply, {r.res : r \in Range(pendingRequests)}, 503,
                         "Server shutting down")
  /\ UNCHANGED <<clients, statusClients, pendingRequests, timers, inflight, gen, stats>>
  /\ UNCHANGED admission

\* shutdown()
Shutdown ==
  /\ ~shuttingDown
  /\ shuttingDown' = TRUE
  /\ LET closing == {e.ws : e \in Range(clients)} \cup statusClients
     IN /\ readyState' = CloseSocket(readyState, closing)
        /\ closeReason' = CloseWhy(closeReason, closing, "shutdown")
  /\ timers' = ClearTimeouts(timers, {r.id : r \in Range(pendingRequests)})
  /\ reply' = WriteError(reply, {r.res : r \in Range(pendingRequests)}, 503,
                         "Server shutting down")
  /\ UNCHANGED <<clients, statusClients, pendingRequests, inflight, gen, stats>>
  /\ UNCHANGED admission

\* -------------------------------------------------------------------- Next
Next ==
  \/ \E w \in WS : Connect(w)
  \/ \E w \in WS : StatusClientMsg(w)
  \/ \E w \in WS, slug \in Slugs : RegisterMsg(w, slug)
  \/ \E w \in WS, f \in ResponseFrames :
       ResponseMsg(w, f[1], f[2])
  \/ \E w \in WS : BeginClose(w)
  \/ \E w \in WS : ErrorEvent(w)
  \/ \E w \in WS : CloseEvent(w)
  \/ \E h \in HTTP, slug \in HttpSlugs : HttpRequest(h, slug)
  \/ \E e \in inflight, collected \in BOOLEAN, sendThrows \in BOOLEAN :
       CollectDone(e, collected, sendThrows)
  \/ \E t \in timers : TimerFire(t)
  \/ PerformMemoryCleanup

\* Normal operation.
Spec == Init /\ [][Next]_vars

\* Operation with a call of shutdown() at some moment.
NextShutdown ==
  \/ Next
  \/ Shutdown

ShutdownSpec == Init /\ [][NextShutdown]_vars

\* Timers that are due fire, and the body of a request ends (or its stream
\* fails): the event loop runs every callback that is ready.
Fairness ==
  \A h \in HTTP :
    /\ WF_vars(\E t \in timers : t.id[1] = h /\ TimerFire(t))
    /\ WF_vars(\E e \in inflight, collected \in BOOLEAN, sendThrows \in BOOLEAN :
                 e.res = h /\ CollectDone(e, collected, sendThrows))

\* Normal operation with these guarantees.
LiveSpec == Init /\ [][Next]_vars /\ Fairness

\* --------------------------------------------------------------- admission
\* The createServer callback up to the registry lookup.  An error reply ends
\* the request; a request that reaches the lookup goes on as HttpRequest.
Admission(req) ==
  LET clientIP == GetClientIP(req)
      gate == CheckRateLimit(rateLimitTracker, now, clientIP, req)
      limited == securityConfig.enableRateLimit /\ ~gate.ok
  IN /\ rateLimitTracker' =
          IF securityConfig.enableRateLimit
          THEN [ip \in DOMAIN rateLimitTracker \cup {clientIP} |->
                  IF ip = clientIP THEN gate.tracker ELSE rateLimitTracker[ip]]
          ELSE rateLimitTracker
     /\ last' = [kind |-> "http", input |-> req,
                 verdict |-> IF limited THEN Rejected(429, "Rate limit exceeded")
                             ELSE RoutePath(req.pathname, securityConfig.slugWhitelist)]
     /\ audit' = IF securityConfig.enableRateLimit /\ gate.ok
                 THEN [audit EXCEPT ![clientIP].http = Append(@, now)]
                 ELSE audit
     /\ UNCHANGED <<now, securityConfig>>
     /\ UNCHANGED engine

\* A control-channel open: the upgrade request raises the server's 'upgrade'
\* event, which the WebSocketServer handles; the createServer callback, and
\* with it checkRateLimit, does not run for it.
WsUpgrade(ip) ==
  /\ Len(audit[ip].ws) < MaxOpens
  /\ audit' = [audit EXCEPT ![ip].ws = Append(@, now)]
  /\ last' = [kind |-> "upgrade", input |-> [remote |-> ip],
              verdict |-> Routed("connection")]
  /\ UNCHANGED <<now, securityConfig, rateLimitTracker>>
  /\ UNCHANGED engine

\* ws.on('message') with a frame that parses: the branch of
\* handleWebSocketMessage; a hint leaves everything else as it is.
WsFrame(message) ==
  /\ last' = [kind |-> "frame", input |-> message,
              verdict |-> HandleWebSocketMessage(message)]
  /\ UNCHANGED <<now, securityConfig, rateLimitTracker, audit>>
  /\ UNCHANGED engine

\* ws.on('message') with data that does not parse to an object.
WsData(data) ==
  /\ last' = [kind |-> "data", input |-> [data |-> data],
              verdict |-> OnMessageData(data)]
  /\ UNCHANGED <<now, securityConfig, rateLimitTracker, audit>>
  /\ UNCHANGED engine

\* Time passes.
Tick ==
  /\ \E t \in Instants : t > now /\ now' = t
  /\ UNCHANGED <<securityConfig, rateLimitTracker, audit, last>>
  /\ UNCHANGED engine

AdmissionInit ==
  /\ EngineInit
  /\ GateInit
  /\ securityConfig \in Configs

\* The rate-limit gate over time, for HTTP requests and control-channel
\* opens of two addresses, with the engine at rest.
GateNext ==
  \/ \E req \in GateRequests : Admission(req)
  \/ \E ip \in {req.remote : req \in GateRequests} : WsUpgrade(ip)
  \/ Tick

GateSpec == AdmissionInit /\ [][GateNext]_vars

\* The gate with the periodic maintenance of setupMemoryManagement running:
\* time passes and the cleanup interval keeps firing.
MaintenanceNext ==
  \/ GateNext
  \/ PerformMemoryCleanup

MaintenanceSpec ==
  /\ AdmissionInit
  /\ [][MaintenanceNext]_vars
  /\ WF_vars(Tick)
  /\ WF_vars(PerformMemoryCleanup)

\* The routing of HTTP requests and of control-channel frames, with the
\* engine at rest.
RouteNext ==
  \/ \E req \in RouteRequests : Admission(req)
  \/ \E message \in Messages : WsFrame(message)
  \/ \E data \in {InvalidJson, JsonNull} : WsData(data)

RouteSpec == AdmissionInit /\ [][RouteNext]_vars

\* collectRequestData builds requestData.headers with sanitizeHeaders.  The
\* sanitiser reads nothing but its argument, so a behaviour filters the
\* headers of one request.
Sanitize(headers) ==
  /\ last.kind = "none"
  /\ last' = [kind |-> "headers", input |-> headers,
              verdict |-> SanitizeHeaders(headers)]
  /\ UNCHANGED <<now, securityConfig, rateLimitTracker, audit>>
  /\ UNCHANGED engine

\* The sanitiser applied to a mapping it has produced.
SanitizeAgain ==
  /\ last.kind = "headers"
  /\ last' = [kind |-> "headers", input |-> last.verdict,
              verdict |-> SanitizeHeaders(last.verdict)]
  /\ UNCHANGED <<now, securityConfig, rateLimitTracker, audit>>
  /\ UNCHANGED engine

SanitizeNext ==
  \/ \E headers \in HeaderMaps : Sanitize(headers)
  \/ SanitizeAgain

\* The header sanitiser over the header mappings, with the engine at rest.
SanitizeSpec == AdmissionInit /\ [][SanitizeNext]_vars

\* ---------------------------------------------------------------- the log
\* memoryConfig.maxLogs.
MaxLogs == 1000
\* The number of addLog calls of a behaviour: enough to overflow the log.
MaxAppends == 1003

\* Array.prototype.slice(-n) for n > 0: the last n elements, all of them
\* when there are fewer.
SliceKeepsOldest(arr, n) == IF Len(arr) <= n THEN arr ELSE SubSeq(arr, 1, n)

Slice(arr, n) == IF Len(arr) <= n THEN arr ELSE SubSeq(arr, Len(arr) - n + 1, Len(arr))

\* The record addLog builds; stamp stands for new Date() of the call, which
\* tells the records of a behaviour apart.
LogEntry(stamp, level, message) ==
  [timestamp |-> stamp, level |-> level, message |-> message]

\* this.logs after addLog: push, then keep the last maxLogs entries.
Pushed(logs, logEntry) ==
  LET pushed == Append(logs, logEntry)
  IN  IF Len(pushed) > MaxLogs THEN Slice(pushed, MaxLogs) ELSE pushed

\* addLog(message, level).  last.verdict is this.logs; last.input.appended
\* is every record ever pushed, in call order.  The broadcast to the
\* dashboards follows the push and changes nothing here: no dashboard is
\* attached.
AddLog(level, message) ==
  /\ last.kind = "log"
  /\ Len(last.input.appended) < MaxAppends
  /\ LET logEntry == LogEntry(Len(last.input.appended) + 1, level, message)
     IN  last' = [kind |-> "log",
                  input |-> [appended |-> Append(last.input.appended, logEntry)],
                  verdict |-> Pushed(last.verdict, logEntry)]
  /\ UNCHANGED <<now, securityConfig, rateLimitTracker, audit>>
  /\ UNCHANGED engine

\* The server after construction: this.logs = [].
LogInit ==
  /\ EngineInit
  /\ now = 0
  /\ rateLimitTracker = [ip \in {} |-> 0]
  /\ audit = [ip \in IPs |-> [http |-> <<>>, ws |-> <<>>]]
  /\ securityConfig = DefaultConfig
  /\ last = [kind |-> "log", input |-> [appended |-> <<>>], verdict |-> <<>>]

\* The calls of a behaviour alternate between the two kinds of line the
\* request path writes, so a record is known by its stamp, level and text.
LogNext ==
  \/ /\ Len(last.input.appended) % 2 = 0
     /\ AddLog("http", "Handling request")
  \/ /\ Len(last.input.appended) % 2 = 1
     /\ AddLog("error", "No pending request found")

\* The log under a run of addLog calls, with the engine at rest.
LogSpec == LogInit /\ [][LogNext]_vars

\* ------------------------------------------------------------- properties
RecordsOf(h) == {r \in Range(pendingRequests) : r.res = h}
InflightOf(h) == {e \in inflight : e.res = h}
HasTimer(ts, id) == \E t \in ts : t.id = id
BoundTo(cl, w) == {e \in Range(cl) : e.ws = w}
LossEvent(w) == CloseEvent(w) \/ ErrorEvent(w)
\* The variables handleClientResponse never writes.
ResponseFrame == UNCHANGED <<readyState, closeReason, clients, inflight, gen, shuttingDown>>
Replied(h) == \E i \in 1..Len(reply[h]) : reply[h][i].ended

\* C1: whatever the interleaving of handler responses, deadline firings,
\* session close/error events, registrations, replacements and shutdown, the
\* HTTP reply of a request is written at most once.
ReplyWrittenAtMostOnce == \A h \in HTTP : Len(reply[h]) <= 1

\* A caller that shutdown() answered with 503 and whose record, left in the
\* table by shutdown(), was afterwards taken by a second terminal event.
SecondTerminalEventAfterShutdown ==
  /\ shuttingDown
  /\ \E h \in HTTP :
       /\ reply[h] = <<ErrorReply(503, "Server shutting down")>>
       /\ RecordsOf(h) = {}
       /\ InflightOf(h) = {}

\* C2: every request that was forwarded or queued eventually gets an HTTP
\* reply, given that due timers fire and request bodies end.
EveryAdmittedRequestIsAnswered ==
  \A h \in HTTP : (gen[h] > 0) ~> Replied(h)

\* C3: in every reachable state
\* succeeded + failed + size of the pending table = received.
StatsBalance ==
  stats.successfulResponses + stats.failedResponses + Len(pendingRequests)
    = stats.totalRequests

\* C4: when a session bound to a slug closes (close or error event), every
\* pending record that was forwarded through that session is completed with
\* 503 'No active WebSocket client for this slug' and removed from the
\* pending table, and the session's bindings are removed.
SessionLossCompletesForwarded ==
  [][\A w \in WS :
       LossEvent(w) /\ BoundTo(clients, w) # {}
         => /\ BoundTo(clients', w) = {}
            /\ \A r \in Range(pendingRequests) :
                 r.sentTo = w
                   => /\ r \notin Range(pendingRequests')
                      /\ reply'[r.res] =
                           <<ErrorReply(503, "No active WebSocket client for this slug")>>
    ]_vars

\* C5: handling the loss of a session leaves every queued (never forwarded)
\* record in the pending table with its queue-wait deadline armed and writes
\* no reply for it.
SessionLossLeavesQueued ==
  [][\A w \in WS :
       LossEvent(w)
         => \A r \in Range(pendingRequests) :
              r.req => /\ r \in Range(pendingRequests')
                       /\ HasTimer(timers', r.id)
                       /\ reply'[r.res] = reply[r.res]
    ]_vars

\* C6: a response frame is delivered only if its sender is the current
\* binding of the record's slug; sent by any other session it is discarded
\* and the record stays pending.
ResponseOnlyFromBinding ==
  [][\A w \in WS, r \in Responses :
       \A rec \in Range(pendingRequests) :
         ResponseMsg(w, rec.id, r) /\ ClientsGet(clients, rec.slug) # w
           => /\ reply' = reply
              /\ pendingRequests' = pendingRequests
    ]_vars

\* The ids uuidv4() has returned so far.
AllocatedIds == UNION {{<<h, g>> : g \in 1..gen[h]} : h \in HTTP}

\* C7: a response frame whose requestId is not in the pending table (never
\* allocated, duplicate, or late) writes no reply and leaves the registry,
\* the pending table, the timers and the counters unchanged.
UnknownResponseChangesNothing ==
  [][ResponseFrame =>
       \A id \in AllocatedIds \cup {BogusId} :
         ~PendingHas(id) =>
           \A w \in WS, r \in Responses :
             ResponseMsg(w, id, r)
               => UNCHANGED <<clients, pendingRequests, timers, reply, stats>>
    ]_vars

\* A forwarded request has timed out and a session is still there to send
\* its late response.
LateResponsePossible ==
  \E h \in HTTP, w \in WS :
    /\ reply[h] = <<ErrorReply(504, "Request timeout")>>
    /\ CanReceive(w)

AtMostOneBinding ==
  \A i, j \in 1..Len(clients) : clients[i].slug = clients[j].slug => i = j

\* C9 as stated: a slug never has two bindings, and a registration for a slug
\* that has a binding asks the old session to close with the 'replaced'
\* reason.
OldSessionAlwaysAskedToClose ==
  /\ []AtMostOneBinding
  /\ [][\A w \in WS, slug \in Slugs :
          RegisterMsg(w, slug) /\ ClientsGet(clients, slug) # NoClient
            => /\ readyState'[ClientsGet(clients, slug)] = "CLOSING"
               /\ closeReason'[ClientsGet(clients, slug)] = "replaced"
       ]_vars

\* C9, amended: a slug never has two bindings, and a registration for a slug
\* whose binding is a session that is still open asks that session to close
\* with the 'replaced' reason; a binding of a session that is already
\* closing or closed is overwritten and that session is sent nothing.
OpenOldSessionAskedToClose ==
  /\ []AtMostOneBinding
  /\ [][\A w \in WS, slug \in Slugs :
          RegisterMsg(w, slug) /\ ClientsGet(clients, slug) # NoClient
            => LET old == ClientsGet(clients, slug)
               IN IF readyState[old] = "OPEN"
                  THEN readyState'[old] = "CLOSING" /\ closeReason'[old] = "replaced"
                  ELSE readyState'[old] = readyState[old]
                         /\ closeReason'[old] = closeReason[old]
       ]_vars

\* A session was replaced by another one and is closing for that reason.
SessionReplaced ==
  \E a, b \in WS, slug \in Slugs :
    /\ a # b
    /\ readyState[a] = "CLOSING" /\ closeReason[a] = "replaced"
    /\ ClientsGet(clients, slug) = b

\* C10: after a registration by session B the slug is bound to B alone; an
\* HTTP request to a slug whose binding is open is handed to that binding and
\* its frame goes to no other session; and the close or error event of
\* another session removes no binding of B and completes no request that
\* was forwarded to B.
ReplacementTakesOver ==
  [][/\ \A w \in WS, slug \in Slugs :
          RegisterMsg(w, slug)
            => {e \in Range(clients') : e.slug = slug} = {[slug |-> slug, ws |-> w]}
     /\ gen' # gen =>
          \A h \in HTTP, slug \in HttpSlugs :
            HttpRequest(h, slug)
              /\ (\E e \in Range(clients) : e.slug = slug /\ readyState[e.ws] = "OPEN")
              => \E f \in inflight' \ inflight :
                   f.res = h /\ [slug |-> slug, ws |-> f.client] \in Range(clients)
     /\ inflight' # inflight =>
          \A e \in inflight, collected \in BOOLEAN, sendThrows \in BOOLEAN :
            CollectDone(e, collected, sendThrows)
              => \A r \in Range(pendingRequests') \ Range(pendingRequests) :
                   r.sentTo \in {NoClient, e.client}
     /\ readyState' # readyState =>
          \A a \in WS :
            LossEvent(a)
              => /\ \A e \in Range(clients) : e.ws # a => e \in Range(clients')
                 /\ \A r \in Range(pendingRequests) :
                      r.sentTo \notin {NoClient, a}
                        => /\ r \in Range(pendingRequests')
                           /\ HasTimer(timers', r.id)
                           /\ reply'[r.res] = reply[r.res]
    ]_vars

\* B has replaced A, which is still closing, and a request that arrived
\* afterwards has been forwarded to B.
ForwardedToReplacement ==
  \E a, b \in WS :
    /\ a # b
    /\ readyState[a] = "CLOSING" /\ closeReason[a] = "replaced"
    /\ ClientsGet(clients, "svc-a") = b
    /\ \E r \in Range(pendingRequests) : r.slug = "svc-a" /\ r.sentTo = b

\* The queue-wait timer of a request is armed only while its record holds
\* the request, unforwarded.
QueueDeadlineOnlyWhileQueued ==
  \A t \in timers :
    t.kind = "queue" => \E r \in Range(pendingRequests) : r.id = t.id /\ r.req

\* C11: a request that arrives for a slug without an open binding is queued
\* and no frame is sent; a registration of the slug takes the record out of
\* the queue, disarms its queue-wait deadline and hands the request to the
\* registering session; once its body is captured and the session is still
\* open, the frame goes to that session and the only deadline of the request
\* is the 150 s forward deadline; and the session's response is written on
\* the reply of the caller that was queued (as sent, when it is well formed).
QueuedThenBoundIsForwarded ==
  /\ []QueueDeadlineOnlyWhileQueued
  /\ [][/\ gen' # gen =>
             \A h \in HTTP, slug \in HttpSlugs :
               HttpRequest(h, slug)
                 /\ ~(\E e \in Range(clients) : e.slug = slug /\ readyState[e.ws] = "OPEN")
                 => /\ inflight' = inflight
                    /\ \E r \in Range(pendingRequests') :
                         /\ r.res = h /\ r.req /\ r.sentTo = NoClient /\ ~r.exposed
                         /\ {t \in timers' : t.id[1] = h}
                              = {[id |-> r.id, kind |-> "queue", ms |-> QueueTimeoutMs]}
        /\ Len(pendingRequests') < Len(pendingRequests) =>
             \A w \in WS, slug \in Slugs :
               RegisterMsg(w, slug)
                 => \A r \in Range(pendingRequests) :
                      r.slug = slug /\ r.req
                        => /\ {t \in timers' : t.id[1] = r.res} = {}
                           /\ RecordsOf(r.res)' = {}
                           /\ reply'[r.res] = reply[r.res]
                           /\ \E e \in inflight' \ inflight :
                                e.res = r.res /\ e.client = w /\ e.slug = slug
        /\ inflight' # inflight =>
             \A e \in inflight :
               e.id[2] > 1 /\ readyState[e.client] = "OPEN" /\ CollectDone(e, TRUE, FALSE)
                 => /\ \E r \in Range(pendingRequests') :
                         r.id = e.id /\ r.res = e.res /\ r.sentTo = e.client /\ ~r.req
                    /\ {t \in timers' : t.id[1] = e.res}
                         = {[id |-> e.id, kind |-> "forward", ms |-> ForwardTimeoutMs]}
        /\ ResponseFrame =>
             \A rec \in Range(pendingRequests), r \in Responses :
               rec.id[2] > 1 /\ rec.sentTo # NoClient /\ ResponseMsg(rec.sentTo, rec.id, r)
                 => /\ \A g \in HTTP \ {rec.res} : reply'[g] = reply[g]
                    /\ RecordsOf(rec.res)' = {}
                    /\ ValidStatus(StatusOf(r)) /\ IsText(r.body)
                         => reply'[rec.res] =
                              <<[status |-> StatusOf(r), headers |-> r.headers,
                                 body |-> r.body, ended |-> TRUE]>>
       ]_vars

\* A request that was queued, then drained by a registration, has been
\* answered with the session's 201 response.
QueuedRequestAnswered ==
  \E h \in HTTP :
    /\ gen[h] = 2
    /\ reply[h] = <<[status |-> 201, headers |-> {<<"Content-Type", "text/plain">>},
                     body |-> "ok", ended |-> TRUE]>>

\* C12: when the queue-wait deadline of a queued request fires (no session
\* has registered its slug in the 30 s since it was queued), the caller is
\* answered 504 'No WebSocket client connected within timeout' and the
\* record is removed from the pending table.
QueueTimeoutAnswers504 ==
  [][timers' # timers =>
       \A t \in timers :
         t.kind = "queue" /\ TimerFire(t)
           => /\ t.ms = QueueTimeoutMs
              /\ \E r \in Range(pendingRequests) : r.id = t.id /\ r.req
              /\ reply'[t.id[1]] =
                   <<ErrorReply(504, "No WebSocket client connected within timeout")>>
              /\ RecordsOf(t.id[1])' = {}
              /\ ~\E u \in timers' : u.id[1] = t.id[1]
    ]_vars

\* A queued request has timed out in the queue.
QueueTimedOut ==
  \E h \in HTTP :
    /\ gen[h] = 1
    /\ reply[h] = <<ErrorReply(504, "No WebSocket client connected within timeout")>>

\* What firing the forward deadline does: 504 'Request timeout', the record
\* is removed, failed is incremented.
ForwardTimeoutAnswers504 ==
  [][timers' # timers =>
       \A t \in timers :
         t.kind = "forward" /\ TimerFire(t)
           => /\ t.ms = ForwardTimeoutMs
              /\ reply'[t.id[1]] = <<ErrorReply(504, "Request timeout")>>
              /\ RecordsOf(t.id[1])' = {}
              /\ stats' = [stats EXCEPT !.failedResponses = @ + 1]
    ]_vars

DrainFramesInAdmissionOrder ==
  \A i, j \in 1..Len(pendingRequests) :
    LET a == pendingRequests[i]
        b == pendingRequests[j]
    IN /\ i < j
       /\ a.id[2] > 1 /\ b.id[2] > 1
       /\ a.slug = b.slug
       /\ a.sentTo # NoClient /\ a.sentTo = b.sentTo
       => a.res < b.res

\* C15: when client.send throws for the forwarded-request frame, the caller
\* receives 500 'Failed to send request to WebSocket client', no record and
\* no timer of the request exist afterwards, and failed goes up by exactly
\* one while the other counters stay.
SendFailureAnswers500 ==
  [][inflight' # inflight =>
       \A e \in inflight :
         CollectDone(e, TRUE, TRUE)
           => /\ reply'[e.res] =
                   <<ErrorReply(500, "Failed to send request to WebSocket client")>>
              /\ RecordsOf(e.res)' = {}
              /\ InflightOf(e.res)' = {}
              /\ ~\E t \in timers' : t.id[1] = e.res
              /\ stats' = [stats EXCEPT !.failedResponses = @ + 1]
    ]_vars

\* A send has failed: the session had gone when the body was captured.
SendFailed ==
  \E h \in HTTP :
    /\ reply[h] = <<ErrorReply(500, "Failed to send request to WebSocket client")>>
    /\ stats.failedResponses > 0
    /\ RecordsOf(h) = {}

\* The reserved-slug hint of the control channel.
ReservedHint == Hint("The slug \"status\" is reserved for the server status page")

\* C16: a registration frame with slug 'status' (a slug, no requestId) gets
\* the error hint, is not handed to registerClient and leaves the registry
\* and the rest of the engine unchanged; and no HTTP request for the slug
\* 'status' reaches the registry lookup, so none creates a pending record or
\* a forwarded frame.
StatusSlugNeverBrokered ==
  /\ [](last.kind = "frame"
          => (/\ last.input.type # "status-client"
              /\ last.input.slug = StatusSlug
              /\ last.input.requestId = ""
              => last.verdict = ReservedHint))
  /\ [](last.kind = "http"
          => (Tail(last.input.pathname) = StatusSlug => last.verdict.next # "lookup"))
  /\ [][\A message \in Messages :
          WsFrame(message) /\ message.slug = StatusSlug /\ message.requestId = ""
            => UNCHANGED engine
       ]_vars
  /\ [][\A req \in Requests :
          Admission(req) /\ Tail(req.pathname) = StatusSlug => UNCHANGED engine
       ]_vars

\* A session has tried to register the slug 'status' and got the hint.
StatusRegistrationRefused ==
  /\ last.kind = "frame"
  /\ last.input.type = "" /\ last.input.slug = StatusSlug /\ last.input.requestId = ""
  /\ last.verdict = ReservedHint
  /\ clients = <<>>

\* The stamps of a list that lie in the 60 s before t.
Trailing(stamps, t) == Cardinality({i \in 1..Len(stamps) : stamps[i] > t - 60000})

\* C17: with rate limiting enabled, a request of an address passes the gate
\* when fewer than max_requests_per_minute requests of that address passed in
\* the trailing 60 s and is answered 429 otherwise, so that exactly the
\* maximum pass in a window; and at no instant has an address more than the
\* maximum of passed requests in the trailing 60 s.
RateGateAdmitsExactlyMax ==
  /\ [](securityConfig.enableRateLimit
          => \A ip \in IPs : Trailing(audit[ip].http, now) <= MaxRequestsPerMinute)
  /\ [][\A req \in Requests :
          securityConfig.enableRateLimit /\ Admission(req)
            => IF Trailing(audit[GetClientIP(req)].http, now) < MaxRequestsPerMinute
               THEN last'.verdict.status # 429
               ELSE last'.verdict = Rejected(429, "Rate limit exceeded")
       ]_vars

\* C18: with rate limiting enabled, no address has more than
\* max_connections_per_ip accepted control-channel opens in the trailing
\* 60 s: an open beyond that is refused.
ControlChannelOpensLimited ==
  securityConfig.enableRateLimit
    => \A ip \in IPs : Trailing(audit[ip].ws, now) <= MaxConnectionsPerIP

\* C20: an HTTP request that passes the rate limit and whose path names a
\* slug is answered 400 when the slug is empty, longer than 50 characters or
\* has a character outside [A-Za-z0-9_-], and 403 when the slug is well formed
\* but not on a non-empty whitelist; in both cases the engine is not touched
\* (no pending record, no frame).  A well-formed slug other than 'status'
\* that the whitelist allows, of 50 characters too, reaches the lookup.
SlugGateRejects ==
  /\ [](last.kind = "http"
          => (/\ last.verdict.status # 429
              /\ last.input.pathname \notin {AuthLoginPath, StatusPath}
              /\ ~StartsWith(last.input.pathname, ApiPrefix)
              => LET slug == Tail(last.input.pathname)
                     malformed == \/ Len(slug) = 0
                                  \/ Len(slug) > 50
                                  \/ \E i \in 1..Len(slug) : slug[i] \notin SlugChars
                     whitelist == securityConfig.slugWhitelist
                     allowed == Len(whitelist) = 0 \/ slug \in Range(whitelist)
                 IN /\ malformed
                       => last.verdict.status = 400 /\ last.verdict.next = "none"
                    /\ ~malformed /\ slug # StatusSlug /\ ~allowed
                       => last.verdict = Rejected(403, "Slug not authorized")
                    /\ ~malformed /\ slug # StatusSlug /\ allowed
                       => last.verdict = Routed("lookup")))
  /\ [][\A req \in Requests :
          Admission(req) /\ last'.verdict.next # "lookup" => UNCHANGED engine
       ]_vars

\* With a whitelist configured, a slug of 50 characters that is on it has
\* reached the lookup.
LongestSlugAdmitted ==
  /\ last.kind = "http"
  /\ Len(securityConfig.slugWhitelist) > 0
  /\ Len(Tail(last.input.pathname)) = 50
  /\ last.verdict = Routed("lookup")

\* C19: a brokered request whose body exceeds the configured maximum is
\* answered 413 and never forwarded (no record, no frame), and a body of
\* exactly the maximum is accepted and forwarded.
OversizeBodyAnswers413 ==
  [][inflight' # inflight =>
       \A e \in inflight, chunks \in Bodies :
         CollectDone(e, CollectRequestData(chunks), FALSE)
           => IF BodyLength(chunks, Len(chunks)) > MaxRequestSize
              THEN /\ Len(reply'[e.res]) = 1
                   /\ reply'[e.res][1].status = 413
                   /\ RecordsOf(e.res)' = {}
              ELSE /\ reply'[e.res] = reply[e.res]
                   /\ \E r \in Range(pendingRequests') : r.id = e.id
    ]_vars

\* The reply shutdown() writes for a pending record.
ShutdownReply == ErrorReply(503, "Server shutting down")

ShutdownClosesEverySession ==
  [][Shutdown =>
       \A w \in WS :
         readyState[w] = "OPEN"
           => readyState'[w] = "CLOSING" /\ closeReason'[w] = "shutdown"
    ]_vars

\* C23: filtering a header mapping twice gives the same mapping as filtering
\* it once, and the filtered mapping has no name of the deny list, in
\* whatever letter case the name is written.
SanitizeIdempotent ==
  last.kind = "headers"
    => /\ SanitizeHeaders(last.verdict) = last.verdict
       /\ \A key \in DOMAIN last.verdict : ToLowerCase(key) \notin DangerousHeaders
       /\ \A key \in DOMAIN last.verdict :
            key \in DOMAIN last.input /\ last.verdict[key] = last.input[key]

\* A mapping with a capitalised name of the deny list, a value that is
\* refused and a header that is kept has been filtered.
MixedHeadersFiltered ==
  /\ last.kind = "headers"
  /\ <<"H", "o", "s", "t">> \in DOMAIN last.input
  /\ \E key \in DOMAIN last.input :
       ToLowerCase(key) \notin DangerousHeaders /\ ~ValidateInput(last.input[key])
  /\ DOMAIN last.verdict = {<<"x", "-", "i", "d">>}

\* C24: a registration (first or replacing) drains only the queued records
\* of its slug: a record that was forwarded and awaits its response stays in
\* the pending table with its deadline armed, gets no reply and is not
\* handed to handleRequestWithClient again.
DrainTouchesOnlyQueued ==
  [][\A w \in WS, slug \in Slugs :
       RegisterMsg(w, slug)
         => \A r \in Range(pendingRequests) :
              ~r.req
                => /\ r \in Range(pendingRequests')
                   /\ HasTimer(timers', r.id)
                   /\ reply'[r.res] = reply[r.res]
                   /\ gen'[r.res] = gen[r.res]
    ]_vars

\* The requests that a registration drained together with e and that were
\* admitted after it.  A session registers a slug once while it is open (a
\* second registration closes it as the binding it replaces), so the
\* drained requests of one slug in the hands of one session come from one
\* drain.
DrainedAfter(e) ==
  {f.res : f \in {g \in inflight :
                    g.id[2] > 1 /\ g.slug = e.slug /\ g.client = e.client /\ g.res > e.res}}
  \cup
  {r.res : r \in {q \in Range(pendingRequests) :
                    q.id[2] > 1 /\ q.slug = e.slug /\ q.sentTo = e.client /\ q.res > e.res}}

\* C25: when the forward of a drained request fails (its body cannot be
\* captured or the send throws), its caller gets 500 and the drain stops:
\* the requests that were queued behind it are still queued, each with its
\* queue-wait deadline, and are not handed to the registering session.
DrainStopsAtFirstFailure ==
  [][inflight' # inflight =>
       \A e \in inflight :
         e.id[2] > 1 /\ (CollectDone(e, FALSE, FALSE) \/ CollectDone(e, TRUE, TRUE))
           => /\ Len(reply'[e.res]) = 1 /\ reply'[e.res][1].status = 500
              /\ DrainedAfter(e) = {}
    ]_vars

\* C26: a registration frame (a slug, no requestId) whose slug is not a
\* valid slug (longer than 50 characters, or with a character outside
\* [A-Za-z0-9_-]) is not handed to registerClient, which would bind the
\* slug, drain its queue and acknowledge with 'registered'.
InvalidSlugNotRegistered ==
  last.kind = "frame"
    => (/\ last.input.type # "status-client"
        /\ last.input.requestId = ""
        /\ ~ValidateSlug(last.input.slug)
        => last.verdict.next # "registerClient")

\* The frames that are none of the three ingress variants, told apart by
\* the fields present: not a dashboard attach, not a registration (a slug
\* and no requestId), not a response (slug, requestId and response).
UnknownShape(message) ==
  /\ message.type # "status-client"
  /\ ~(message.slug # <<>> /\ message.requestId = "")
  /\ ~(message.slug # <<>> /\ message.requestId # "" /\ message.response # "")

\* C27: a frame that is not JSON, or that is JSON of none of the three
\* ingress variants, is answered with an error hint and is handed to no
\* handler: the registry, the pending table, the dashboards, the counters
\* and the sessions stay as they are, for every such frame of a sequence.
ProtocolErrorOnlyHints ==
  /\ [](last.kind = "data"
          => last.verdict.next = "none" /\ last.verdict.error # "")
  /\ [](last.kind = "frame"
          => (UnknownShape(last.input) => last.verdict = Hint("Invalid message format")))
  /\ [][(\E data \in {InvalidJson, JsonNull} : WsData(data)) => UNCHANGED engine]_vars
  /\ [][\A message \in Messages :
          UnknownShape(message) /\ WsFrame(message) => UNCHANGED engine
       ]_vars

\* C28: every path that completes a request or takes its record out of the
\* pending table, other than the deadline itself, disarms the deadline
\* timer: in every state an armed timer belongs to a record of the pending
\* table whose request has no reply yet.
NoTimerOutlivesItsRequest ==
  \A t \in timers :
    /\ PendingHas(t.id)
    /\ reply[t.id[1]] = <<>>

\* C29: the body of a request is captured, and checked against the maximum
\* size, before the request is forwarded, queued or counted as received:
\* the step that ends with the registry lookup, before the body has been
\* read, leaves the pending table and the counters as they are.
BodyCapturedBeforeAdmission ==
  [][gen' # gen =>
       \A h \in HTTP, slug \in HttpSlugs :
         HttpRequest(h, slug)
           => /\ pendingRequests' = pendingRequests
              /\ stats' = stats
    ]_vars

\* The address has a bucket and every timestamp in it is older than 60 s.
BucketExpired(ip) ==
  /\ ip \in DOMAIN rateLimitTracker
  /\ CleanOld(rateLimitTracker[ip].requests, now - WindowMs) = <<>>
  /\ CleanOld(rateLimitTracker[ip].connections, now - WindowMs) = <<>>

\* C30: once all the timestamps of an address are older than 60 s, the
\* periodic maintenance eventually removes the bucket of the address from
\* the tracker.
ExpiredBucketsArePruned ==
  \A ip \in IPs : BucketExpired(ip) ~> (ip \notin DOMAIN rateLimitTracker)

\* C31: after any run of log appends the log holds at most 1000 records,
\* and they are the most recently appended records, in the order in which
\* they were appended.
LogKeepsMostRecent ==
  last.kind = "log" =>
    LET appended == last.input.appended
        n == Len(appended)
        kept == IF n < 1000 THEN n ELSE 1000
    IN  /\ Len(last.verdict) <= 1000
        /\ last.verdict = [i \in 1..kept |-> appended[n - kept + i]]

\* The log has overflowed: more records were appended than it holds.
LogOverflowed ==
  /\ last.kind = "log"
  /\ Len(last.input.appended) > MaxLogs
  /\ Len(last.verdict) = MaxLogs

\* C32: once the close event of a session has been handled, no slug of the
\* registry is bound to the session, whether it had registered several slugs
\* or had also attached as a dashboard.
ClosedSessionHoldsNoSlug ==
  \A w \in WS : readyState[w] = "CLOSED" => BoundTo(clients, w) = {}

\* The registry and the dashboard set.
Registry == [clients |-> clients, statusClients |-> statusClients]

\* The registry and the dashboard set after removeClient(w).
RegistryAfterRemove(reg, w) ==
  IF w \in reg.statusClients
  THEN [reg EXCEPT !.statusClients = @ \ {w}]
  ELSE LET I == {i \in 1..Len(reg.clients) : reg.clients[i].ws = w}
       IN IF I = {}
          THEN reg
          ELSE [reg EXCEPT !.clients =
                  ClientsDelete(@, reg.clients[CHOOSE i \in I : \A j \in I : i <= j].slug)]

\* C33: session-loss handling is idempotent: when the error event of a
\* session has been handled, handling its close event leaves the registry as
\* the error event left it, which is how a single close event leaves it.
SessionLossIdempotent ==
  [][readyState' # readyState =>
       \A w \in WS :
         ErrorEvent(w) => RegistryAfterRemove(Registry', w) = Registry'
    ]_vars

\* C34: a registration frame never closes the session that sent it: the
\* sender is still open when its registration has been handled.
RegistrationKeepsSenderOpen ==
  [][readyState' # readyState =>
       \A w \in WS, slug \in Slugs :
         RegisterMsg(w, slug) => readyState'[w] = "OPEN"
    ]_vars

Stage(h) ==
  IF gen[h] = 0 THEN 0
  ELSE IF \E r \in RecordsOf(h) : r.req THEN 1
  ELSE IF InflightOf(h) # {} THEN 2
  ELSE IF RecordsOf(h) # {} THEN 3
  ELSE 4

\* client.send has returned for a frame of h in this step: the record that
\* handleRequestWithClient stores after the send enters the table.
FrameSent(h) ==
  \E r \in Range(pendingRequests') : r.res = h /\ ~r.req /\ ~PendingHas(r.id)

\* C36: an HTTP request is forwarded at most once and to one session: it
\* is in the tables at most once, it never goes back to an earlier stage,
\* and a forwarded-request frame is sent for it only in the step that takes
\* it from the capture of its body to waiting for the response.
ForwardedAtMostOnce ==
  /\ [](\A h \in HTTP : Cardinality(RecordsOf(h)) + Cardinality(InflightOf(h)) <= 1)
  /\ [][\A h \in HTTP :
         /\ Stage(h)' >= Stage(h)
         /\ FrameSent(h) => Stage(h) = 2 /\ Stage(h)' = 3
      ]_vars

\* A request that was queued, drained by a registration and forwarded to
\* the session that registered.
DrainedRequestForwarded ==
  \E h \in HTTP :
    /\ gen[h] = 2
    /\ \E r \in RecordsOf(h) : ~r.req /\ r.sentTo # NoClient

\* The requests that leave the tables in this step after they had been
\* counted as received.
Finished ==
  {h \in HTTP : Stage(h) \in {2, 3} /\ Stage(h)' = 4}

\* C37: succeeded + failed never exceeds received, and a request is counted
\* at most once as succeeded or failed: every such count is for a request
\* that leaves the tables for good in the same step.
OutcomesWithinReceived ==
  /\ [](stats.successfulResponses + stats.failedResponses <= stats.totalRequests)
  /\ [][stats' # stats =>
         (stats.successfulResponses' + stats.failedResponses')
           - (stats.successfulResponses + stats.failedResponses)
             <= Cardinality(Finished)
      ]_vars

\* One request was answered by its session and another one failed.
OneSucceededOneFailed ==
  /\ stats.successfulResponses = 1
  /\ stats.failedResponses = 1
  /\ stats.totalRequests = 2

\* The registry binds the slug to the session.
Binds(cl, slug, w) == \E i \in 1..Len(cl) : cl[i].slug = slug /\ cl[i].ws = w

CleanupRemovesOnlyAnswered ==
  /\ [](\A r \in Range(pendingRequests) :
          reply[r.res] = <<>> => \E t \in timers : t.id = r.id /\ t.ms < 300000)
  /\ [][pendingRequests' # pendingRequests =>
         (PerformMemoryCleanup =>
            \A r \in Range(pendingRequests) :
              (\A q \in Range(pendingRequests') : q.id # r.id) => reply[r.res] # <<>>)
      ]_vars

\* The cleanup runs while a queued and a forwarded request wait for their
\* replies.
CleanupWithWaitingRequests ==
  /\ ENABLED PerformMemoryCleanup
  /\ \E q, f \in Range(pendingRequests) :
       /\ q.req /\ ~f.req
       /\ reply[q.res] = <<>> /\ reply[f.res] = <<>>
====
